---------------------------- MODULE Spec2Model ----------------------------
(***************************************************************************)
(* rtma_grib2_to_tiff: the band merge (main.py) and the two validators     *)
(* (validation.py) as one state machine.                                   *)
(*                                                                         *)
(* File names and paths are sequences of one-character strings, so that    *)
(* formatting (f"{current:04d}"), the regular expression t(\d{2})(\d{2})z, *)
(* the substring test `date in entry`, os.path.join and os.path.basename   *)
(* are modelled by what they do.                                           *)
(*                                                                         *)
(* Values of a grid are integers >= 0 in units of 0.5e-6, or NaN (a NaN or *)
(* a masked cell): rounding to 6 decimals is rounding to an even number of *)
(* units, the tolerance 1e-5 is 20 units.                                  *)
(***************************************************************************)
EXTENDS Integers, Sequences, FiniteSets

(***************************************************************************)
(* Bounds of the model.                                                    *)
(***************************************************************************)
MaxFiles == 3       \* entries of the directory a merge_bands pipeline starts from
MaxBands == 3       \* bands of a raster handed to the validators directly
NumCells == 3       \* rows of a raster (rasters are one column wide)
GridSize == 2       \* grid_size of validate_spatial_match (the source's default is 32)

(***************************************************************************)
(* Settings of main.py.                                                    *)
(***************************************************************************)
DATE == <<"2","0","2","5","0","1","0","7">>
AWS_PREFIX == <<"r","t","m","a","2","p","5","_","r","u">>
AWS_POSTFIX == <<"2","d","v","a","r","a","n","l","_","n","d","f","d",".","g","r","b","2">>
\* an absolute directory ending in "/" that does not hold the date, as the
\* source's
DOWNLOAD_LOCATION_PATH == <<"/","i","n","/">>
MinutesPerDay == 1440
\* TIME_STEP_MINUTES is 60 in the source (24 files a day); the model runs main
\* with the settings that need 3, 2, 1 and 0 files.
TimeSteps == {480, 720, 1440, 1500}

(***************************************************************************)
(* Strings.                                                                *)
(***************************************************************************)
DigitChars == <<"0","1","2","3","4","5","6","7","8","9">>

IsDigit(c) == \E d \in 1..10 : DigitChars[d] = c

DigitVal(c) == (CHOOSE d \in 1..10 : DigitChars[d] = c) - 1

\* f"{current:04d}" for 0 <= current < 10000
Fmt04(n) ==
    << DigitChars[((n \div 1000) % 10) + 1], DigitChars[((n \div 100) % 10) + 1],
       DigitChars[((n \div 10) % 10) + 1], DigitChars[(n % 10) + 1] >>

\* `sub in s`
Contains(s, sub) ==
    \E i \in 1..(Len(s) - Len(sub) + 1) : SubSeq(s, i, i + Len(sub) - 1) = sub

\* s.endswith(suf)
EndsWith(s, suf) ==
    /\ Len(s) >= Len(suf)
    /\ SubSeq(s, Len(s) - Len(suf) + 1, Len(s)) = suf

GRB2 == <<".","g","r","b","2">>

\* os.path.join(a, b)
Join(a, b) ==
    IF b # <<>> /\ b[1] = "/" THEN b
    ELSE IF a = <<>> THEN b
    ELSE IF a[Len(a)] = "/" THEN a \o b
    ELSE a \o <<"/">> \o b

\* os.path.basename(p): what follows the last "/"
basename(p) ==
    LET slashes == {i \in 1..Len(p) : p[i] = "/"}
        last == IF slashes = {} THEN 0
                ELSE CHOOSE i \in slashes : \A j \in slashes : j <= i
    IN  SubSeq(p, last + 1, Len(p))

\* re.search(r't(\d{2})(\d{2})z', s) tried at position i
MatchAt(s, i) ==
    /\ i + 5 <= Len(s)
    /\ s[i] = "t"
    /\ \A k \in 1..4 : IsDigit(s[i + k])
    /\ s[i + 5] = "z"

RECURSIVE SearchFrom(_, _)
\* the scan of re.search: the leftmost position that matches, 0 for no match
SearchFrom(s, i) ==
    IF i > Len(s) THEN 0
    ELSE IF MatchAt(s, i) THEN i
    ELSE SearchFrom(s, i + 1)

SENTINEL == 9999

extract_timestamp(filename) ==
    LET m == SearchFrom(filename, 1)
    IN  IF m # 0
        THEN DigitVal(filename[m + 1]) * 1000 + DigitVal(filename[m + 2]) * 100
             + DigitVal(filename[m + 3]) * 10 + DigitVal(filename[m + 4])
        ELSE SENTINEL

(***************************************************************************)
(* Sequences.                                                              *)
(***************************************************************************)
Range(s) == {s[i] : i \in 1..Len(s)}

Injective(s) == \A i, j \in 1..Len(s) : i # j => s[i] # s[j]

DistinctSeqs(S, n) == {s \in UNION {[1..k -> S] : k \in 0..n} : Injective(s)}

Perms(S) == {s \in [1..Cardinality(S) -> S] : Injective(s)}

(***************************************************************************)
(* Values and grids.                                                       *)
(***************************************************************************)
\* NaN: a cell that holds no number (a NaN, or a masked value). The numbers of
\* the model are >= 0.
NaN == -1

IsNaN(val) == val = NaN

Cells == 1..NumCells

ConstGrid(val) == [c \in Cells |-> val]

Abs(n) == IF n < 0 THEN -n ELSE n

\* np.round(x, decimals=6): to the nearest even number of units, a tie to the
\* multiple of 1e-6 whose last digit is even; NaN stays NaN
Round6(val) ==
    IF IsNaN(val) THEN val
    ELSE LET q == val \div 2
         IN  IF val % 2 = 0 THEN val
             ELSE IF q % 2 = 0 THEN 2 * q ELSE 2 * q + 2

\* The key a rounded cell makes in a Counter. Numbers that are equal are one
\* key. A NaN is equal to nothing, itself included, and every NaN read from an
\* array is an object of its own: each NaN cell is a key of its own.
CounterKey(val, side, cell) ==
    IF IsNaN(val) THEN <<"nan", side, cell>> ELSE <<"num", "", Round6(val)>>

\* Counter(np.round(data, 6)): key -> occurrences
Counter(grid, side) ==
    LET keys == {CounterKey(grid[c], side, c) : c \in Cells}
    IN  [k \in keys |-> Cardinality({c \in Cells : CounterKey(grid[c], side, c) = k})]

\* compare_value_distributions, once both arrays are read
compare_value_distributions(tiff_data, grib_data) ==
    LET tiff_counts == Counter(tiff_data, "tiff")
        grib_counts == Counter(grib_data, "grib")
        tiff_values == DOMAIN tiff_counts
        grib_values == DOMAIN grib_counts
    IN  IF tiff_values # grib_values THEN FALSE
        ELSE \A value \in tiff_values : tiff_counts[value] = grib_counts[value]

\* np.linspace(0, total - 1, grid_size, dtype=int)
Linspace(total, grid_size) ==
    [k \in 1..grid_size |->
        IF grid_size = 1 THEN 0 ELSE ((k - 1) * (total - 1)) \div (grid_size - 1)]

\* get_fixed_sample_points: np.meshgrid of the two index vectors, flattened
get_fixed_sample_points(total_width, total_height, grid_size) ==
    LET row_indices == Linspace(total_height, grid_size)
        col_indices == Linspace(total_width, grid_size)
    IN  [p \in 1..(grid_size * grid_size) |->
            << row_indices[((p - 1) % grid_size) + 1],
               col_indices[((p - 1) \div grid_size) + 1] >>]

Tolerance == 20

\* diff = abs(tiff_value - grib_value); if diff > 1e-5. A NaN difference
\* compares False.
SampleMismatch(tiff_value, grib_value) ==
    /\ ~IsNaN(tiff_value)
    /\ ~IsNaN(grib_value)
    /\ Abs(tiff_value - grib_value) > Tolerance

\* a raster is one column wide: tiff_data[row, col] with col = 0
At(grid, point) == grid[point[1] + 1]

\* the mismatches counted over the sample points of one band
CountMismatches(tiff_data, grib_data, points) ==
    Cardinality({p \in 1..Len(points) :
                    SampleMismatch(At(tiff_data, points[p]), At(grib_data, points[p]))})

(***************************************************************************)
(* Files. The state names a file, and a directory, by a short identifier;  *)
(* NameOf and DirOf give the name and the path the code sees.              *)
(***************************************************************************)
\* the name download_grib_files gives the file of time `current`
StdName(current) == AWS_PREFIX \o <<".","t">> \o Fmt04(current) \o <<"z",".">> \o AWS_POSTFIX

StdFiles == {"t0000", "t0800", "t1200", "t1600"}

Files == StdFiles \cup {"dated_t0800", "dated", "notes"}

NameOf(f) ==
    CASE f = "t0000" -> StdName(0)
      [] f = "t0800" -> StdName(800)
      [] f = "t1200" -> StdName(1200)
      [] f = "t1600" -> StdName(1600)
         \* 20250107.t0800z.grb2: the date in the name, the time of t0800
      [] f = "dated_t0800" -> DATE \o <<".","t","0","8","0","0","z">> \o GRB2
         \* 20250107.grb2: the date in the name, no time
      [] f = "dated" -> DATE \o GRB2
         \* t0000z.txt: not a .grb2 file
      [] f = "notes" -> <<"t","0","0","0","0","z",".","t","x","t">>

FileNamed(name) == CHOOSE f \in Files : NameOf(f) = name

DirOf(d) ==
    CASE d = "download" -> DOWNLOAD_LOCATION_PATH
         \* /rtma2p5_ru.20250107
      [] d = "dated" -> <<"/">> \o AWS_PREFIX \o <<".">> \o DATE
         \* rtma2p5_ru.20250107, relative to the working directory
      [] d = "relative" -> AWS_PREFIX \o <<".">> \o DATE

\* every file's requested band holds a value of its own in every cell
Marker(f) ==
    CASE f = "t0000" -> 100  [] f = "t0800" -> 200  [] f = "t1200" -> 300
      [] f = "t1600" -> 400  [] f = "dated_t0800" -> 500  [] f = "dated" -> 600
      [] f = "notes" -> 700

MarkerLayers(S) == [f \in S |-> ConstGrid(Marker(f))]

Values == {0, 1, 21, NaN}

Grids == [Cells -> Values]

NoFile == [exists |-> FALSE, msgs |-> <<>>]

\* what an earlier run left at the output path
OldFile == [exists |-> TRUE, msgs |-> <<"old">>]

VARIABLES
    entry,        \* "main" | "pipeline" | "validate": what was called
    pc,           \* the position in the code
    err,          \* the exception that ended the run, "none" otherwise
    step,         \* TIME_STEP_MINUTES
    dirpath,      \* the directory of the source files
    dir,          \* its entries, in the order the filesystem lists them
    bad,          \* the files whose requested band cannot be read
    layer,        \* file -> the grid of the file's requested band
    prior,        \* the output path before the run
    out,          \* the output path: [exists, msgs], msgs the origin of each message
    outOpened,    \* the run opened the output path for writing
    input_files,  \* merge_bands
    messages,     \* merge_bands: the origin of each extracted message
    skips,        \* merge_bands: the per-file errors reported
    msg_count,    \* merge_bands: the count of the verification
    idx,          \* the index of the running loop
    tiff,         \* the converted raster: its bands
    grib_files,   \* the validators' file list
    vsResult,     \* validate_spatial_match: "none" | "True" | "False"
    vsWhy,        \* where it returned False: "count" | "mismatch" | "exception"
    sampleBuilt,  \* validate_spatial_match built its sample points
    bandsRead,    \* validate_spatial_match: bands read
    layersOpened, \* validate_spatial_match: source files opened
    vsMismatches, \* validate_spatial_match: mismatches of the last band compared
    vbResult,     \* validate_band_values: "none" | "True" | "False"
    vbWhy,
    vbCompared,   \* compare_value_distributions: pairs of arrays compared
    vbLast        \* the last pair compared and the result

envVars == <<entry, step, dirpath, bad, layer, prior>>
mergeVars == <<input_files, messages, skips, msg_count, out, outOpened>>
vsVars == <<vsResult, vsWhy, sampleBuilt, bandsRead, layersOpened, vsMismatches>>
vbVars == <<vbResult, vbWhy, vbCompared, vbLast>>
vars == <<envVars, mergeVars, vsVars, vbVars, pc, err, dir, idx, tiff, grib_files>>

\* os.path.join(directory, entry) for an entry of the directory
Path(f) == Join(DirOf(dirpath), NameOf(f))

\* the sort key of a list entry
Key(f) == extract_timestamp(basename(Path(f)))

\* insert x into the sorted sequence s after every element whose key is <= x's
InsertByKey(s, x) ==
    LET n == Cardinality({i \in 1..Len(s) : Key(s[i]) <= Key(x)})
    IN  SubSeq(s, 1, n) \o <<x>> \o SubSeq(s, n + 1, Len(s))

RECURSIVE SortFrom(_, _)
SortFrom(done, rest) ==
    IF rest = <<>> THEN done
    ELSE SortFrom(InsertByKey(done, Head(rest)), Tail(rest))

\* the list left in discovery order
SortByKeyNoSort(s) == s

\* list.sort(key=lambda x: extract_timestamp(os.path.basename(x))): a stable sort
SortByKey(s) == SortFrom(<<>>, s)

(***************************************************************************)
(* The state before the first step.                                        *)
(***************************************************************************)
Fresh ==
    /\ err = "none"
    /\ out = prior
    /\ outOpened = FALSE
    /\ input_files = <<>>
    /\ messages = <<>>
    /\ skips = 0
    /\ msg_count = 0
    /\ idx = 1
    /\ grib_files = <<>>
    /\ vsResult = "none"
    /\ vsWhy = "none"
    /\ sampleBuilt = FALSE
    /\ bandsRead = 0
    /\ layersOpened = 0
    /\ vsMismatches = 0
    /\ vbResult = "none"
    /\ vbWhy = "none"
    /\ vbCompared = 0
    /\ vbLast = [t |-> <<>>, g |-> <<>>, res |-> TRUE]

\* main() is run: the download directory holds what earlier runs left
InitMain ==
    /\ entry = "main"
    /\ pc = "main_download"
    /\ step \in TimeSteps
    /\ dirpath = "download"
    /\ dir \in DistinctSeqs({"t0000", "notes"}, 2)
    /\ bad \in {{}, {"t0000"}, StdFiles}
    /\ layer = MarkerLayers(StdFiles \cup {"notes"})
    /\ prior \in {NoFile, OldFile}
    /\ tiff = <<>>
    /\ Fresh

\* merge_bands is called on a directory, then grib2_to_tiff and the validators
InitPipeline ==
    /\ entry = "pipeline"
    /\ pc = "merge_list"
    /\ step = 60
    /\ dirpath \in {"download", "dated"}
    /\ dir \in DistinctSeqs({"t0000", "t0800", "dated_t0800", "dated", "notes"}, MaxFiles)
    /\ bad \in SUBSET (Range(dir) \ {"notes"})
    /\ layer = MarkerLayers(Range(dir))
    /\ prior \in {NoFile, OldFile}
    /\ tiff = <<>>
    /\ Fresh

\* the validators are called on a raster and a directory of two source files:
\* rasters of 1 to MaxBands bands, files that cannot be read, a relative
\* directory, a second band that differs
InitValidateShape ==
    /\ dirpath \in {"dated", "relative"}
    /\ bad \in SUBSET {"t0000", "t0800"}
    /\ layer = MarkerLayers({"t0000", "t0800"})
    /\ \E nb \in 1..MaxBands, t2 \in {ConstGrid(Marker("t0800")), ConstGrid(NaN), ConstGrid(0)} :
          tiff = [b \in 1..nb |-> IF b = 1 THEN ConstGrid(Marker("t0000")) ELSE t2]

\* ... and any two grids as band 1 and as the first file's layer
InitValidateValues ==
    /\ dirpath = "dated"
    /\ bad = {}
    /\ \E t1 \in Grids, g1 \in Grids :
          /\ layer = [MarkerLayers({"t0000", "t0800"}) EXCEPT !["t0000"] = g1]
          /\ tiff = <<t1, ConstGrid(Marker("t0800"))>>

InitValidators ==
    /\ entry = "validate"
    /\ pc = "vs_start"
    /\ step = 60
    /\ dir = <<"t0800", "t0000">>
    /\ prior = NoFile
    /\ Fresh

InitValidate == InitValidators /\ InitValidateShape

InitValues == InitValidators /\ InitValidateValues

Init == InitMain \/ InitPipeline \/ InitValidate

(***************************************************************************)
(* main and download_grib_files.                                           *)
(***************************************************************************)
Raise(e) == pc' = "raised" /\ err' = e

num_keys == MinutesPerDay \div step

RECURSIVE DownloadTimes(_, _)
\* the times the loop of download_grib_files forms, n keys from `current` on
DownloadTimes(n, current) ==
    LET hours == current \div 100
        minutes == current % 100
        total_minutes == hours * 60 + minutes + step
    IN  IF n = 0 \/ hours >= 24 \/ minutes >= 60 THEN <<>>
        ELSE <<current>> \o DownloadTimes(n - 1, (total_minutes \div 60) * 100 + (total_minutes % 60))

\* output_path of each key: the file of that name
Expected ==
    [k \in 1..Len(DownloadTimes(num_keys, 0)) |-> FileNamed(StdName(DownloadTimes(num_keys, 0)[k]))]

\* the keys still to fetch: a file that exists is skipped
Missing == SelectSeq(Expected, LAMBDA f : f \notin Range(dir))

\* download_grib_files returns: every missing key was fetched. The filesystem
\* lists the directory in an order of its own.
MainDownload ==
    /\ pc = "main_download"
    /\ dir' \in Perms(Range(dir) \cup Range(Expected))
    /\ pc' = "main_verify"
    /\ UNCHANGED <<envVars, mergeVars, vsVars, vbVars, err, idx, tiff, grib_files>>

\* download_from_s3 raises on the k-th missing key: main ends there
MainDownloadFail ==
    /\ pc = "main_download"
    /\ \E k \in 1..Len(Missing) :
          dir' = dir \o SubSeq(Missing, 1, k - 1)
    /\ Raise("DownloadError")
    /\ UNCHANGED <<envVars, mergeVars, vsVars, vbVars, idx, tiff, grib_files>>

\* main with the assertion on the file count left out
MainVerifyNoAssert ==
    /\ pc = "main_verify"
    /\ pc' = "merge_list"
    /\ UNCHANGED <<envVars, mergeVars, vsVars, vbVars, err, dir, idx, tiff, grib_files>>

\* num_files = len(...); assert num_keys == num_files
MainVerify ==
    /\ pc = "main_verify"
    /\ LET num_files == Len(dir)
       IN  IF num_keys = num_files
           THEN pc' = "merge_list" /\ err' = err
           ELSE Raise("AssertCount")
    /\ UNCHANGED <<envVars, mergeVars, vsVars, vbVars, dir, idx, tiff, grib_files>>

\* main returns 0 after grib2_to_tiff
MainReturn ==
    /\ entry = "main"
    /\ pc = "converted"
    /\ pc' = "done"
    /\ UNCHANGED <<envVars, mergeVars, vsVars, vbVars, err, dir, idx, tiff, grib_files>>

(***************************************************************************)
(* merge_bands.                                                            *)
(***************************************************************************)
\* the .grb2 entries of the directory, in the order os.listdir gives
ListGrb2(listing) == SelectSeq(listing, LAMBDA f : EndsWith(NameOf(f), GRB2))

MergeList ==
    /\ pc = "merge_list"
    /\ input_files' = ListGrb2(dir)
    /\ IF input_files' = <<>>
       THEN Raise("NoFiles")
       ELSE pc' = "merge_extract" /\ err' = err
    /\ messages' = <<>>
    /\ idx' = 1
    /\ UNCHANGED <<envVars, skips, msg_count, out, outOpened, vsVars, vbVars, dir, tiff, grib_files>>

\* the loop body with the inner try/except left out: a file's error ends the merge
MergeExtractAbort ==
    /\ pc = "merge_extract"
    /\ idx <= Len(input_files)
    /\ LET file_path == input_files[idx]
       IN  IF file_path \in bad
           THEN /\ Raise("ExtractError")
                /\ UNCHANGED <<messages, skips, idx>>
           ELSE /\ messages' = Append(messages, file_path)
                /\ idx' = idx + 1
                /\ UNCHANGED <<skips, pc, err>>
    /\ UNCHANGED <<envVars, input_files, msg_count, out, outOpened, vsVars, vbVars, dir, tiff, grib_files>>

\* one iteration of `for file_path in input_files`
MergeExtract ==
    /\ pc = "merge_extract"
    /\ idx <= Len(input_files)
    /\ LET file_path == input_files[idx]
       IN  IF file_path \in bad
           THEN /\ skips' = skips + 1
                /\ UNCHANGED messages
           ELSE /\ messages' = Append(messages, file_path)
                /\ UNCHANGED skips
    /\ idx' = idx + 1
    /\ UNCHANGED <<envVars, input_files, msg_count, out, outOpened, vsVars, vbVars, pc, err, dir, tiff, grib_files>>

\* the step after the loop with `if not messages` left out
MergeCheckNoGuard ==
    /\ pc = "merge_extract"
    /\ idx > Len(input_files)
    /\ out' = [exists |-> TRUE, msgs |-> <<>>]
    /\ outOpened' = TRUE
    /\ idx' = 1
    /\ pc' = "merge_write"
    /\ UNCHANGED <<envVars, input_files, messages, skips, msg_count, vsVars, vbVars, err, dir, tiff, grib_files>>

\* after the loop: `if not messages: raise`, the key comparison (warnings
\* only), then open(output_file_path, 'wb'), which empties the file
MergeCheck ==
    /\ pc = "merge_extract"
    /\ idx > Len(input_files)
    /\ IF messages = <<>>
       THEN /\ Raise("NoMessages")
            /\ UNCHANGED <<out, outOpened, idx>>
       ELSE \/ /\ out' = [exists |-> TRUE, msgs |-> <<>>]
               /\ outOpened' = TRUE
               /\ idx' = 1
               /\ pc' = "merge_write"
               /\ err' = err
            \/ /\ Raise("OpenError")
               /\ UNCHANGED <<out, outOpened, idx>>
    /\ UNCHANGED <<envVars, input_files, messages, skips, msg_count, vsVars, vbVars, dir, tiff, grib_files>>

\* one iteration of `for msg in messages`: msg.tofile(out) writes, or raises
MergeWrite ==
    /\ pc = "merge_write"
    /\ idx <= Len(messages)
    /\ \/ /\ out' = [out EXCEPT !.msgs = Append(@, messages[idx])]
          /\ idx' = idx + 1
          /\ UNCHANGED <<pc, err>>
       \/ /\ Raise("WriteError")
          /\ UNCHANGED <<out, idx>>
    /\ UNCHANGED <<envVars, input_files, messages, skips, msg_count, outOpened, vsVars, vbVars, dir, tiff, grib_files>>

\* the file is closed, reopened and its messages counted
MergeVerify ==
    /\ pc = "merge_write"
    /\ idx > Len(messages)
    /\ msg_count' = Len(out.msgs)
    /\ pc' = "merged"
    /\ UNCHANGED <<envVars, input_files, messages, skips, out, outOpened, vsVars, vbVars, err, dir, idx, tiff, grib_files>>

(***************************************************************************)
(* grib2_to_tiff.                                                          *)
(***************************************************************************)
\* band i of the raster is message i of the merged file
Translate(msgs) == [i \in 1..Len(msgs) |-> layer[msgs[i]]]

\* gdal.Translate keeps every band, or (a library at fault) loses the last
\* one: then the assertion on the band counts ends the run
Convert ==
    /\ pc = "merged"
    /\ \/ /\ tiff' = Translate(out.msgs)
          /\ pc' = "converted"
          /\ err' = err
       \/ /\ tiff' = SubSeq(Translate(out.msgs), 1, Len(out.msgs) - 1)
          /\ Raise("AssertBands")
    /\ UNCHANGED <<envVars, mergeVars, vsVars, vbVars, dir, idx, grib_files>>

(***************************************************************************)
(* The validators.                                                         *)
(***************************************************************************)
\* glob.glob(os.path.join(grib_directory, "*.grb2")), the entries that hold
\* the date, sorted by the time in the name
SourceSet(listing, date) ==
    SortByKey(SelectSeq(ListGrb2(listing), LAMBDA f : Contains(Path(f), date)))

\* a file is at the path
Exists(path) == \E f \in Range(dir) : Path(f) = path

\* the file at the path
FileAt(path) == CHOOSE f \in Range(dir) : Path(f) = path

\* the caller goes on from the conversion to the first validator
StartValidation ==
    /\ entry = "pipeline"
    /\ pc = "converted"
    /\ pc' = "vs_start"
    /\ UNCHANGED <<envVars, mergeVars, vsVars, vbVars, err, dir, idx, tiff, grib_files>>

\* validate_spatial_match with the band count check left out
VSStartNoCheck ==
    /\ pc = "vs_start"
    /\ grib_files' = SourceSet(dir, DATE)
    /\ sampleBuilt' = TRUE
    /\ idx' = 1
    /\ pc' = "vs_band"
    /\ UNCHANGED <<envVars, mergeVars, vsResult, vsWhy, bandsRead, layersOpened, vsMismatches, vbVars, err, dir, tiff>>

\* validate_spatial_match up to the loop over the bands: the file list, the
\* coordinate grid, the band count check, the sample points
VSStart ==
    /\ pc = "vs_start"
    /\ grib_files' = SourceSet(dir, DATE)
    /\ LET num_bands == Len(tiff)
       IN  IF num_bands # Len(grib_files')
           THEN /\ vsResult' = "False"
                /\ vsWhy' = "count"
                /\ pc' = "vs_returned"
                /\ UNCHANGED <<sampleBuilt, idx>>
           ELSE /\ sampleBuilt' = TRUE
                /\ idx' = 1
                /\ pc' = "vs_band"
                /\ UNCHANGED <<vsResult, vsWhy>>
    /\ UNCHANGED <<envVars, mergeVars, bandsRead, layersOpened, vsMismatches, vbVars, err, dir, tiff>>

\* one iteration of `for band_idx, grib_file in enumerate(grib_files, start=1)`
VSBand ==
    /\ pc = "vs_band"
    /\ idx <= Len(grib_files)
    /\ LET grib_path == Join(DirOf(dirpath), Path(grib_files[idx]))
           points == get_fixed_sample_points(1, NumCells, GridSize)
           mismatches == CountMismatches(tiff[idx], layer[FileAt(grib_path)], points)
       IN  IF idx > Len(tiff)
           THEN \* tiff.read(band_idx) raises: the raster has no such band
                /\ vsResult' = "False"
                /\ vsWhy' = "exception"
                /\ pc' = "vs_returned"
                /\ UNCHANGED <<bandsRead, layersOpened, vsMismatches, idx>>
           ELSE
           /\ bandsRead' = bandsRead + 1
           /\ IF ~Exists(grib_path)
              THEN \* pygrib.open raises
                   /\ vsResult' = "False"
                   /\ vsWhy' = "exception"
                   /\ pc' = "vs_returned"
                   /\ UNCHANGED <<layersOpened, vsMismatches, idx>>
              ELSE IF FileAt(grib_path) \in bad
              THEN \* list(grbs)[target_band_number - 1] raises
                   /\ layersOpened' = layersOpened + 1
                   /\ vsResult' = "False"
                   /\ vsWhy' = "exception"
                   /\ pc' = "vs_returned"
                   /\ UNCHANGED <<vsMismatches, idx>>
              ELSE /\ layersOpened' = layersOpened + 1
                   /\ vsMismatches' = mismatches
                   /\ IF mismatches > 0
                      THEN /\ vsResult' = "False"
                           /\ vsWhy' = "mismatch"
                           /\ pc' = "vs_returned"
                           /\ UNCHANGED idx
                      ELSE /\ idx' = idx + 1
                           /\ UNCHANGED <<vsResult, vsWhy, pc>>
    /\ UNCHANGED <<envVars, mergeVars, sampleBuilt, vbVars, err, dir, tiff, grib_files>>

\* after the last band: return True
VSReturnTrue ==
    /\ pc = "vs_band"
    /\ idx > Len(grib_files)
    /\ vsResult' = "True"
    /\ pc' = "vs_returned"
    /\ UNCHANGED <<envVars, mergeVars, vsWhy, sampleBuilt, bandsRead, layersOpened, vsMismatches, vbVars, err, dir, idx, tiff, grib_files>>

\* the caller goes on to the second validator
NextValidator ==
    /\ pc = "vs_returned"
    /\ pc' = "vb_start"
    /\ UNCHANGED <<envVars, mergeVars, vsVars, vbVars, err, dir, idx, tiff, grib_files>>

\* validate_band_values with the band count check left out
VBStartNoCheck ==
    /\ pc = "vb_start"
    /\ grib_files' = SourceSet(dir, DATE)
    /\ idx' = 1
    /\ pc' = "vb_band"
    /\ UNCHANGED <<envVars, mergeVars, vsVars, vbVars, err, dir, tiff>>

\* validate_band_values up to the loop: the file list and the band count check
VBStart ==
    /\ pc = "vb_start"
    /\ grib_files' = SourceSet(dir, DATE)
    /\ LET num_tiff_bands == Len(tiff)
       IN  IF num_tiff_bands # Len(grib_files')
           THEN /\ vbResult' = "False"
                /\ vbWhy' = "count"
                /\ pc' = "done"
                /\ UNCHANGED idx
           ELSE /\ idx' = 1
                /\ pc' = "vb_band"
                /\ UNCHANGED <<vbResult, vbWhy>>
    /\ UNCHANGED <<envVars, mergeVars, vsVars, vbCompared, vbLast, err, dir, tiff>>

\* one iteration of `for idx, grib_file in enumerate(grib_files, start=1)`:
\* compare_value_distributions reads both arrays (False when the band or the
\* source file cannot be read) and compares them
VBBand ==
    /\ pc = "vb_band"
    /\ idx <= Len(grib_files)
    /\ LET grib_path == Join(DirOf(dirpath), Path(grib_files[idx]))
           tiff_data == tiff[idx]
           grib_data == layer[FileAt(grib_path)]
           same == compare_value_distributions(tiff_data, grib_data)
       IN  IF idx > Len(tiff) \/ ~Exists(grib_path) \/ FileAt(grib_path) \in bad
           THEN /\ vbResult' = "False"
                /\ vbWhy' = "exception"
                /\ pc' = "done"
                /\ UNCHANGED <<vbCompared, vbLast, idx>>
           ELSE /\ vbCompared' = vbCompared + 1
                /\ vbLast' = [t |-> tiff_data, g |-> grib_data, res |-> same]
                /\ IF same
                   THEN /\ idx' = idx + 1
                        /\ UNCHANGED <<vbResult, vbWhy, pc>>
                   ELSE /\ vbResult' = "False"
                        /\ vbWhy' = "mismatch"
                        /\ pc' = "done"
                        /\ UNCHANGED idx
    /\ UNCHANGED <<envVars, mergeVars, vsVars, err, dir, tiff, grib_files>>

\* after the last band: return True
VBReturnTrue ==
    /\ pc = "vb_band"
    /\ idx > Len(grib_files)
    /\ vbResult' = "True"
    /\ pc' = "done"
    /\ UNCHANGED <<envVars, mergeVars, vsVars, vbWhy, vbCompared, vbLast, err, dir, idx, tiff, grib_files>>

Next ==
    \/ MainDownload
    \/ MainDownloadFail
    \/ MainVerify
    \/ MainReturn
    \/ MergeList
    \/ MergeExtract
    \/ MergeCheck
    \/ MergeWrite
    \/ MergeVerify
    \/ Convert
    \/ StartValidation
    \/ VSStart
    \/ VSBand
    \/ VSReturnTrue
    \/ NextValidator
    \/ VBStart
    \/ VBBand
    \/ VBReturnTrue

Spec == Init /\ [][Next]_vars

\* the validators alone, on every pair of value grids
NextValidators ==
    \/ VSStart
    \/ VSBand
    \/ VSReturnTrue
    \/ NextValidator
    \/ VBStart
    \/ VBBand
    \/ VBReturnTrue

SpecValues == InitValues /\ [][NextValidators]_vars

(***************************************************************************)
(* Positions.                                                              *)
(***************************************************************************)
\* merge_bands has returned
AfterMerge ==
    {"merged", "converted", "vs_start", "vs_band", "vs_returned", "vb_start", "vb_band", "done"}

MergeErrors == {"NoFiles", "NoMessages", "OpenError", "WriteError", "ExtractError"}

MergeReturned == entry # "validate" /\ (pc \in AfterMerge \/ (pc = "raised" /\ err = "AssertBands"))

MergeRaised == pc = "raised" /\ err \in MergeErrors

\* the input files whose band cannot be extracted
BadInputs == {i \in 1..Len(input_files) : input_files[i] \in bad}

\* a validator has built its file list
Listed == entry # "main" /\ pc \in {"vs_band", "vs_returned", "vb_start", "vb_band", "done"}

(***************************************************************************)
(* C1. After merge_bands has returned, the i-th message of the merged      *)
(* output comes from the i-th file of the Source Set (the entries that     *)
(* hold the date, sorted by time), for every i. Stated here for the runs   *)
(* that favour it most: every input file of the merge is in the Source Set *)
(* and no file was skipped.                                                *)
(* merge_bands takes the files in the order os.listdir gives them and      *)
(* never sorts them: the statement fails.                                  *)
(***************************************************************************)
C1_PositionalCorrespondence ==
    (MergeReturned /\ skips = 0 /\ Len(input_files) = Len(SourceSet(dir, DATE)))
        => \A i \in 1..Len(out.msgs) : out.msgs[i] = SourceSet(dir, DATE)[i]

(***************************************************************************)
(* C2, as stated. With exactly one of the N input files failing,           *)
(* merge_bands does not raise, reports one skip and writes N-1 messages.   *)
(* Fails for N = 1 (nothing is extracted: ValueError) and when opening or  *)
(* writing the output fails.                                               *)
(***************************************************************************)
C2_SkipTolerance ==
    (entry # "validate" /\ Cardinality(BadInputs) = 1 /\ (pc \in AfterMerge \/ pc = "raised"))
        => /\ ~MergeRaised
           /\ skips = 1
           /\ Len(out.msgs) = Len(input_files) - 1

(***************************************************************************)
(* C2, amended. With exactly one of N >= 2 input files failing,            *)
(* merge_bands raises only when opening or writing the output fails; the   *)
(* loop visits every file, reports exactly one skip and collects N-1       *)
(* messages, and a merge_bands that returns has written exactly N-1        *)
(* messages.                                                               *)
(***************************************************************************)
C2_SkipToleranceAmended ==
    (entry # "validate" /\ Cardinality(BadInputs) = 1 /\ Len(input_files) >= 2)
        => /\ MergeRaised => err \in {"OpenError", "WriteError"}
           /\ (pc = "merge_extract" /\ idx <= Len(input_files))
                 => Len(messages) + skips = idx - 1
           /\ (pc # "merge_extract" \/ idx > Len(input_files))
                 => skips = 1 /\ Len(messages) = Len(input_files) - 1
           /\ MergeReturned
                 => Len(out.msgs) = Len(input_files) - 1 /\ msg_count = Len(input_files) - 1

C2_Witness ==
    /\ pc = "merged"
    /\ Len(input_files) = 3
    /\ BadInputs = {2}
    /\ skips = 1
    /\ Len(out.msgs) = 2

(***************************************************************************)
(* C3. When the directory holds no .grb2 file, or no band can be extracted *)
(* from any of them, merge_bands ends only by raising (ValueError) and the *)
(* output path is never opened: it stays what it was, and nothing is       *)
(* converted.                                                              *)
(***************************************************************************)
AllFail == \A f \in Range(dir) : EndsWith(NameOf(f), GRB2) => f \in bad

C3_NoOutputOnEmpty ==
    (entry # "validate" /\ AllFail /\ pc \notin {"main_download", "main_verify"})
        => /\ pc \in {"merge_list", "merge_extract", "raised"}
           /\ pc = "raised" => err \in {"NoFiles", "NoMessages", "DownloadError", "AssertCount"}
           /\ (pc = "raised" /\ input_files # <<>>) => err = "NoMessages"
           /\ ~outOpened
           /\ out = prior
           /\ tiff = <<>>

C3_Witness ==
    /\ pc = "raised"
    /\ err = "NoMessages"
    /\ Len(input_files) >= 2
    /\ skips = Len(input_files)
    /\ out = OldFile

(***************************************************************************)
(* C4. When merge_bands raises, the output path holds no message this run  *)
(* wrote (no partial output is retained).                                  *)
(* A write error on the k-th message leaves the k-1 messages written       *)
(* before it in the file: the statement fails.                             *)
(***************************************************************************)
C4_NoPartialOutput ==
    MergeRaised => (out = prior \/ out.msgs = <<>>)

(***************************************************************************)
(* C5. In main, merge_bands and grib2_to_tiff are reached only when the    *)
(* number of files in the download directory is 1440 // TIME_STEP_MINUTES; *)
(* with any other count the run ends in the assertion, before anything is  *)
(* merged, written or converted.                                           *)
(***************************************************************************)
C5_CountGate ==
    entry = "main" =>
        /\ (pc \notin {"main_download", "main_verify"}
              /\ ~(pc = "raised" /\ err \in {"DownloadError", "AssertCount"}))
           => Len(dir) = 1440 \div step
        /\ (pc = "raised" /\ err = "AssertCount")
           => /\ Len(dir) # 1440 \div step
              /\ input_files = <<>>
              /\ messages = <<>>
              /\ ~outOpened
              /\ out = prior
              /\ tiff = <<>>

C5_Witness ==
    /\ entry = "main"
    /\ pc = "done"
    /\ step = 480
    /\ Len(dir) = 3
    /\ Len(tiff) = 3

(***************************************************************************)
(* C6. The file list of a validator holds exactly the .grb2 entries whose  *)
(* path holds the date, each once, in non-decreasing order of key; entries *)
(* of equal key keep the order of discovery; the key is the HHMM of the    *)
(* leftmost tHHMMz token of the name and 9999 for a name without one.      *)
(***************************************************************************)
\* the positions of the name where a token t, four digits, z starts
TokenStarts(name) == {p \in 1..Len(name) : MatchAt(name, p)}

TokenKey(name) ==
    IF TokenStarts(name) = {} THEN 9999
    ELSE LET p == CHOOSE q \in TokenStarts(name) : \A r \in TokenStarts(name) : q <= r
         IN  1000 * DigitVal(name[p + 1]) + 100 * DigitVal(name[p + 2])
             + 10 * DigitVal(name[p + 3]) + DigitVal(name[p + 4])

Discovery(f) == CHOOSE i \in 1..Len(dir) : dir[i] = f

C6_SourceSetOrder ==
    Listed =>
        LET wanted == {f \in Range(dir) :
                          EndsWith(NameOf(f), GRB2) /\ Contains(Path(f), DATE)}
        IN  /\ Range(grib_files) = wanted
            /\ Len(grib_files) = Cardinality(wanted)
            /\ \A i, j \in 1..Len(grib_files) :
                  i < j => /\ Key(grib_files[i]) <= Key(grib_files[j])
                           /\ Key(grib_files[i]) = Key(grib_files[j])
                                 => Discovery(grib_files[i]) < Discovery(grib_files[j])
            /\ \A i \in 1..Len(grib_files) :
                  /\ Key(grib_files[i]) = TokenKey(NameOf(grib_files[i]))
                  /\ \A t \in {0, 800, 1200, 1600} :
                        NameOf(grib_files[i]) = StdName(t) => Key(grib_files[i]) = t
                  /\ grib_files[i] = "dated" => Key(grib_files[i]) = 9999

C6_Witness ==
    /\ Listed
    /\ Len(grib_files) = 3
    /\ grib_files # ListGrb2(dir)
    /\ Key(grib_files[1]) = 800
    /\ Key(grib_files[2]) = 800
    /\ Key(grib_files[3]) = 9999

(***************************************************************************)
(* C7. compare_value_distributions returns True exactly when the two grids *)
(* hold the same rounded values, each as often in one as in the other (so  *)
(* a grid compared with itself passes).                                    *)
(* A NaN cell is a Counter key equal to no other key: a grid that holds a  *)
(* NaN fails against itself, and the statement fails.                      *)
(***************************************************************************)
Occurrences(grid, val) == Cardinality({c \in Cells : Round6(grid[c]) = val})

SameMultiset(a, b) ==
    \A c \in Cells :
        /\ Occurrences(a, Round6(a[c])) = Occurrences(b, Round6(a[c]))
        /\ Occurrences(a, Round6(b[c])) = Occurrences(b, Round6(b[c]))

C7_DistributionIsMultisetEquality ==
    vbCompared > 0 => (vbLast.res <=> SameMultiset(vbLast.t, vbLast.g))

(***************************************************************************)
(* C8. When the raster's band count differs from the number of files of    *)
(* the Source Set, validate_spatial_match returns False at the band count  *)
(* check: no sample point is built, no band read, no source file opened.   *)
(***************************************************************************)
C8_CountMismatchImmediate ==
    (Listed /\ Len(tiff) # Len(SourceSet(dir, DATE)))
        => /\ vsResult = "False"
           /\ vsWhy = "count"
           /\ ~sampleBuilt
           /\ bandsRead = 0
           /\ layersOpened = 0

C8_Witness ==
    /\ entry = "validate"
    /\ pc = "vs_returned"
    /\ Len(tiff) = 3
    /\ Len(grib_files) = 2
    /\ vsResult = "False"

(***************************************************************************)
(* C9. validate_spatial_match returns True only if every sample point of   *)
(* every band is within the tolerance: the two values differ by at most    *)
(* 1e-5 (20 units).                                                        *)
(* The difference of a NaN (or masked) value and a number is NaN, and      *)
(* NaN > 1e-5 is False: the point is not counted, and a raster that holds  *)
(* NaN where the source holds a number passes. The statement fails.        *)
(***************************************************************************)
WithinTolerance(a, b) ==
    \/ IsNaN(a) /\ IsNaN(b)
    \/ ~IsNaN(a) /\ ~IsNaN(b) /\ Abs(a - b) <= 20

SampleRows == {Linspace(NumCells, GridSize)[k] + 1 : k \in 1..GridSize}

C9_TrueOnlyWithinTolerance ==
    vsResult = "True" =>
        \A b \in 1..Len(grib_files) : \A c \in SampleRows :
            WithinTolerance(tiff[b][c], layer[grib_files[b]][c])

(***************************************************************************)
(* C10. In a pipeline run whose merge inputs are the N files of the Source *)
(* Set, where merge_bands skipped at least one file and the conversion     *)
(* kept the band count, both validators return False at their band count   *)
(* check: no band is read, no source file opened, no pair of arrays        *)
(* compared.                                                               *)
(***************************************************************************)
C10_SkipFailsValidation ==
    (/\ entry = "pipeline"
     /\ skips >= 1
     /\ Len(input_files) = Len(SourceSet(dir, DATE))
     /\ pc \in {"vs_band", "vs_returned", "vb_start", "vb_band", "done"})
        => /\ Len(tiff) = Len(input_files) - skips
           /\ pc \notin {"vs_band", "vb_band"}
           /\ vsResult = "False" /\ vsWhy = "count"
           /\ ~sampleBuilt /\ bandsRead = 0 /\ layersOpened = 0
           /\ vbCompared = 0
           /\ pc = "done" => vbResult = "False" /\ vbWhy = "count"

C10_Witness ==
    /\ entry = "pipeline"
    /\ pc = "done"
    /\ skips = 1
    /\ Len(input_files) = 3
    /\ Len(grib_files) = 3
    /\ Len(tiff) = 2
    /\ vsResult = "False"
    /\ vbResult = "False"

=============================================================================
